---- MODULE Spec2Model ----
(***************************************************************************)
(* Model of the demand forecasting core (DemandForecaster) and of the      *)
(* request layer that calls it (forecast_demand with ForecastRequest).     *)
(*                                                                         *)
(* Units.  Dates are day numbers; day 0 is a Monday, so dayofweek is       *)
(* d % 7 with Monday = 0.  Point estimates (yhat) are integers counting    *)
(* thousandths; the two summary statistics, which the code rounds to two   *)
(* decimals, are integers counting hundredths.                             *)
(***************************************************************************)
EXTENDS Integers, Sequences, FiniteSets, TLC

\* sales_data is the caller's sales table of the latest call, as that call
\* has left it (empty when the call takes no table)
VARIABLES prophet_models, rf_models, is_fitted, op, args, ret, sales_data

vars == <<prophet_models, rf_models, is_fitted, op, args, ret, sales_data>>

(***************************************************************************)
(* Program constants                                                       *)
(***************************************************************************)
MIN_OBS == 30

HORIZON_GE == 1

HORIZON_LE == 365

(***************************************************************************)
(* Bounds of the model                                                     *)
(***************************************************************************)
\* horizons 0..MaxSmallDays are tried next to HORIZON_LE and HORIZON_LE + 1
MaxSmallDays == 2

\* longest list of requested product ids
MaxRequest == 2

\* most records of a sales table handed to prepare_data on its own
MaxRecords == 3

\* the product ids, in the order pandas sorts them
ProductOrder == <<"P001", "P002">>

Products == {ProductOrder[i] : i \in 1..Len(ProductOrder)}

IdRank(p) == CHOOSE i \in 1..Len(ProductOrder) : ProductOrder[i] = p

\* numbers of distinct sale dates a product has in one sales table
ObsChoices == {0, MIN_OBS - 1, MIN_OBS}

DaysAheadChoices == (0..MaxSmallDays) \cup {HORIZON_LE, HORIZON_LE + 1}

(***************************************************************************)
(* Arithmetic helpers                                                      *)
(***************************************************************************)
Max(a, b) == IF a >= b THEN a ELSE b

\* the largest of s[lo..hi] (by halves)
RECURSIVE SeqMax(_, _, _)
SeqMax(s, lo, hi) ==
  IF lo = hi THEN s[lo]
  ELSE LET mid == (lo + hi) \div 2
       IN  Max(SeqMax(s, lo, mid), SeqMax(s, mid + 1, hi))

\* variant of RoundDiv: the quotient is truncated
RoundDivTruncates(num, den) == num \div den

\* round(num / den) to the nearest integer, ties to even (den > 0)
RoundDiv(num, den) ==
  LET q == num \div den
      r == num % den
  IN  IF 2 * r < den THEN q
      ELSE IF 2 * r > den THEN q + 1
      ELSE IF q % 2 = 0 THEN q ELSE q + 1

(***************************************************************************)
(* Sales tables                                                            *)
(***************************************************************************)
\* a raw date as the generator writes it, a Timestamp, or an unparseable value
RawDate(d) == [kind |-> "date", day |-> d]

Timestamp(d) == [kind |-> "ts", day |-> d]

BadDate == [kind |-> "bad", day |-> 0]

\* the k-th sale date of a table
DayOf(k) == k + 2

SaleRecord(k, p, s) ==
  LET d == DayOf(k) IN
  [date |-> RawDate(d), product_id |-> p, store_id |-> s,
   quantity_sold |-> 1 + ((d + s) % 4),
   unit_price |-> 1000 + 10 * s + (d % 3),
   promotion_applied |-> (s = 2)]

\* days[p] distinct dates for product p, one record a day from store 1, and a
\* second record from store 2 on the first day
ProductRecords(p, n) ==
  IF n = 0 THEN <<>>
  ELSE [k \in 1..n |-> SaleRecord(n + 1 - k, p, 1)] \o <<SaleRecord(1, p, 2)>>

MalformedRecord ==
  [date |-> BadDate, product_id |-> "P001", store_id |-> 1,
   quantity_sold |-> 1, unit_price |-> 1000, promotion_applied |-> FALSE]

SalesTable(days, malformed) ==
  ProductRecords("P001", days["P001"]) \o ProductRecords("P002", days["P002"])
    \o (IF malformed THEN <<MalformedRecord>> ELSE <<>>)

(***************************************************************************)
(* Calendar: day 0 is Monday 2024-01-01                                    *)
(***************************************************************************)
dayofweek(d) == d % 7

MonthLengths(leap) ==
  <<31, IF leap THEN 29 ELSE 28, 31, 30, 31, 30, 31, 31, 30, 31, 30, 31>>

RECURSIVE MonthOfYearDay(_, _, _)
MonthOfYearDay(k, leap, m) ==
  IF m = 12 \/ k < MonthLengths(leap)[m] THEN m
  ELSE MonthOfYearDay(k - MonthLengths(leap)[m], leap, m + 1)

RECURSIVE MonthFrom(_, _)
MonthFrom(d, year) ==
  LET leap == (year % 4 = 0)
      len == IF leap THEN 366 ELSE 365
  IN  IF d < len THEN MonthOfYearDay(d, leap, 1) ELSE MonthFrom(d - len, year + 1)

month(d) == MonthFrom(d, 2024)

quarter(d) == ((month(d) - 1) \div 3) + 1

(***************************************************************************)
(* DemandForecaster.prepare_data                                           *)
(***************************************************************************)
\* pd.to_datetime of one value of the date column
to_datetime(x) == Timestamp(x.day)

RECURSIVE Gcd(_, _)
Gcd(a, b) == IF b = 0 THEN a ELSE Gcd(b, a % b)

\* the mean of a group as a fraction in lowest terms
Mean(total, count) ==
  LET g == Gcd(total, count) IN [num |-> total \div g, den |-> count \div g]

RECURSIVE SumQuantity(_, _)
SumQuantity(s, i) ==
  IF i > Len(s) THEN 0 ELSE s[i].quantity_sold + SumQuantity(s, i + 1)

RECURSIVE SumPrice(_, _)
SumPrice(s, i) ==
  IF i > Len(s) THEN 0 ELSE s[i].unit_price + SumPrice(s, i + 1)

\* variant of DailyRow: quantity_sold is aggregated with 'first'
DailyRowFirstQuantity(sales, d, p) ==
  LET group == SelectSeq(sales, LAMBDA r : r.date.day = d /\ r.product_id = p)
      dow == dayofweek(d)
  IN  [date |-> Timestamp(d),
       product_id |-> p,
       quantity_sold |-> group[1].quantity_sold,
       unit_price |-> Mean(SumPrice(group, 1), Len(group)),
       promotion_applied |-> (\E i \in 1..Len(group) : group[i].promotion_applied),
       day_of_week |-> dow,
       month |-> month(d),
       quarter |-> quarter(d),
       is_weekend |-> IF dow \in {5, 6} THEN 1 ELSE 0]

\* one row of daily_sales: the group of key (day, product_id)
DailyRow(sales, d, p) ==
  LET group == SelectSeq(sales, LAMBDA r : r.date.day = d /\ r.product_id = p)
      dow == dayofweek(d)
  IN  [date |-> Timestamp(d),
       product_id |-> p,
       quantity_sold |-> SumQuantity(group, 1),
       unit_price |-> Mean(SumPrice(group, 1), Len(group)),
       promotion_applied |-> (\E i \in 1..Len(group) : group[i].promotion_applied),
       day_of_week |-> dow,
       month |-> month(d),
       quarter |-> quarter(d),
       is_weekend |-> IF dow \in {5, 6} THEN 1 ELSE 0]

\* the order of the group keys: by date, then by product id
KeyBefore(a, b) ==
  a[1] < b[1] \/ (a[1] = b[1] /\ IdRank(a[2]) <= IdRank(b[2]))

\* the group keys in the order groupby leaves them (sorted)
RECURSIVE SortedKeys(_)
SortedKeys(S) ==
  IF S = {} THEN <<>>
  ELSE LET k == CHOOSE a \in S : \A b \in S : KeyBefore(a, b)
       IN  <<k>> \o SortedKeys(S \ {k})

\* raises when the date column cannot be converted; otherwise daily_sales,
\* one row per (date, product_id) of the input, sorted by that key.  The
\* converted column is assigned to the table that was passed in, so the
\* result also carries sales_data, that table as the call leaves it.
prepare_data(sales) ==
  IF \E i \in 1..Len(sales) : sales[i].date.kind = "bad"
  THEN [raised |-> TRUE, rows |-> <<>>, sales_data |-> sales]
  ELSE LET converted == [i \in 1..Len(sales) |->
                           [sales[i] EXCEPT !.date = to_datetime(sales[i].date)]]
           keys == SortedKeys({<<converted[i].date.day, converted[i].product_id>> :
                                 i \in 1..Len(converted)})
       IN  [raised |-> FALSE,
            rows |-> [j \in 1..Len(keys) |->
                        DailyRow(converted, keys[j][1], keys[j][2])],
            sales_data |-> converted]

(***************************************************************************)
(* DemandForecaster.create_prophet_features                                *)
(***************************************************************************)
ProphetRow(r) ==
  [ds |-> r.date.day, y |-> r.quantity_sold,
   promotion |-> IF r.promotion_applied THEN 1 ELSE 0,
   is_weekend |-> r.is_weekend]

\* sort_values('ds')
SortByDs(frame) == SortSeq(frame, LAMBDA a, b : a.ds < b.ds)

create_prophet_features(data, product_id) ==
  LET product_data == SelectSeq(data, LAMBDA r : r.product_id = product_id)
      prophet_data == [i \in 1..Len(product_data) |-> ProphetRow(product_data[i])]
  IN  SortByDs(prophet_data)

(***************************************************************************)
(* The fitted model.  Prophet's fit is outside the repository: its result  *)
(* is a choice among a few parameter vectors of the additive model         *)
(* yhat = level + slope * (days after the last training day)               *)
(*        + beta_weekend * is_weekend + beta_promotion * promotion,        *)
(* or an exception.                                                        *)
(***************************************************************************)
ParamChoices ==
  { [level |-> 1237, slope |-> 0, beta_weekend |-> 1500, beta_promotion |-> 500],
    [level |-> -2500, slope |-> 20, beta_weekend |-> 0, beta_promotion |-> 0] }

DefaultParams == CHOOSE q \in ParamChoices : q.slope = 0

\* what model.fit does for one product: it raises, or it yields parameters
FitOutcomes ==
  {[raises |-> TRUE, params |-> DefaultParams]}
    \cup {[raises |-> FALSE, params |-> q] : q \in ParamChoices}

\* model.fit(prophet_data): the model keeps its training dates and parameters
ProphetFit(prophet_data, params) ==
  [history_dates |-> [i \in 1..Len(prophet_data) |-> prophet_data[i].ds],
   params |-> params]

(***************************************************************************)
(* DemandForecaster.fit_prophet_model: <<>> is None, <<model>> a model     *)
(***************************************************************************)
fit_prophet_model(data, product_id, outcome) ==
  LET prophet_data == create_prophet_features(data, product_id)
  IN  IF Len(prophet_data) < MIN_OBS THEN <<>>
      ELSE IF outcome.raises THEN <<>>
      ELSE <<ProphetFit(prophet_data, outcome.params)>>

(***************************************************************************)
(* DemandForecaster.fit: the loop over products['product_id'].unique()     *)
(***************************************************************************)
EmptyDict == [x \in {} |-> 0]

\* d[k] = v on a dict
SetItem(d, k, v) == [x \in DOMAIN d \cup {k} |-> IF x = k THEN v ELSE d[x]]

RECURSIVE FitLoop(_, _, _, _, _)
FitLoop(models, prepared_data, catalog, outcomes, i) ==
  IF i > Len(catalog) THEN models
  ELSE LET product_id == catalog[i]
           prophet_model == fit_prophet_model(prepared_data, product_id,
                                              outcomes[product_id])
       IN  FitLoop(IF prophet_model # <<>>
                     THEN SetItem(models, product_id, prophet_model[1])
                     ELSE models,
                   prepared_data, catalog, outcomes, i + 1)

\* variant of fit: the registry is emptied before the data is prepared
fit_clears_first(self, prepared, catalog, outcomes) ==
  IF prepared.raised
  THEN [raised |-> TRUE, prophet_models |-> EmptyDict, is_fitted |-> self.is_fitted]
  ELSE [raised |-> FALSE,
        prophet_models |-> FitLoop(EmptyDict, prepared.rows, catalog, outcomes, 1),
        is_fitted |-> TRUE]

\* variant of fit: the flag is set only when the registry holds a model
fit_flag_needs_model(self, prepared, catalog, outcomes) ==
  IF prepared.raised
  THEN [raised |-> TRUE,
        prophet_models |-> self.prophet_models,
        is_fitted |-> self.is_fitted]
  ELSE LET models == FitLoop(self.prophet_models, prepared.rows, catalog, outcomes, 1)
       IN  [raised |-> FALSE,
            prophet_models |-> models,
            is_fitted |-> (DOMAIN models # {})]

\* fit(self, sales_data, products), prepared being prepare_data(sales_data):
\* whether it raised, and the forecaster's fields as the call leaves them
fit(self, prepared, catalog, outcomes) ==
  IF prepared.raised
  THEN [raised |-> TRUE,
        prophet_models |-> self.prophet_models,
        is_fitted |-> self.is_fitted]
  ELSE [raised |-> FALSE,
        prophet_models |-> FitLoop(self.prophet_models, prepared.rows, catalog,
                                   outcomes, 1),
        is_fitted |-> TRUE]

(***************************************************************************)
(* DemandForecaster.predict_prophet                                        *)
(***************************************************************************)
\* Prophet.make_future_dataframe(periods), history included
make_future_dataframe(model, periods) ==
  LET history == model.history_dates
      last_date == SeqMax(history, 1, Len(history))
  IN  [i \in 1..(Len(history) + periods) |->
         IF i <= Len(history) THEN history[i] ELSE last_date + (i - Len(history))]

\* one row of model.predict(future), promotion = 0 and is_weekend from ds;
\* the trend runs from the last training day
PredictRow(params, last_date, ds) ==
  LET promotion == 0
      is_weekend == IF dayofweek(ds) \in {5, 6} THEN 1 ELSE 0
  IN  [ds |-> ds,
       yhat |-> params.level + params.slope * (ds - last_date)
                  + params.beta_weekend * is_weekend
                  + params.beta_promotion * promotion]

\* variant of tail: the whole frame is returned
tail_keeps_history(frame, n) == frame

\* DataFrame.tail(n), n >= 0
tail(frame, n) ==
  LET len == Len(frame)
  IN  IF n = 0 THEN <<>> ELSE SubSeq(frame, Max(1, len - n + 1), len)

\* the part of predict_prophet after the lookup of the model
PredictFuture(model, days_ahead) ==
  LET future == make_future_dataframe(model, days_ahead)
      last_date == SeqMax(model.history_dates, 1, Len(model.history_dates))
      forecast == [i \in 1..Len(future) |->
                     PredictRow(model.params, last_date, future[i])]
  IN  tail(forecast, days_ahead)

(***************************************************************************)
(* Inputs of the calls                                                     *)
(***************************************************************************)
\* one table for every choice of day counts, and one that cannot be prepared
SalesChoices ==
  [days : [Products -> ObsChoices], malformed : {FALSE}]
    \cup [days : {[p \in Products |-> MIN_OBS]}, malformed : {TRUE}]

\* prepare_data on every sales table of the model
PreparedOf ==
  [c \in SalesChoices |-> prepare_data(SalesTable(c.days, c.malformed))] @@ <<>>

\* products['product_id'].unique(): lists of distinct catalog ids
Catalogs ==
  {<<>>} \cup {<<p>> : p \in Products}
    \cup {<<p, q>> : <<p, q>> \in {pq \in Products \X Products : pq[1] # pq[2]}}

RequestLists == UNION {[1..n -> Products] : n \in 0..MaxRequest}

NoSales == [days |-> [p \in Products |-> 0], malformed |-> FALSE]

NoRet ==
  [raised |-> FALSE, error |-> "", fitted |-> {}, summary |-> <<>>, rows |-> <<>>]

\* no table is passed
NoTable == <<>>

NoArgs == [sales |-> NoSales, catalog |-> <<>>, product_ids |-> <<>>, days_ahead |-> 0]

\* every model a sales table of the model can give, and PredictFuture
\* tabulated on them (a memo: the table holds PredictFuture's own values)
TabulatedModels ==
  {ProphetFit(create_prophet_features(PreparedOf[c].rows, p), q) :
     c \in {x \in SalesChoices : ~x.malformed}, p \in Products, q \in ParamChoices}

PredictTable ==
  [k \in {m \in TabulatedModels : Len(m.history_dates) > 0} \X DaysAheadChoices |->
     PredictFuture(k[1], k[2])] @@ <<>>

predict_prophet(models, product_id, days_ahead) ==
  IF product_id \notin DOMAIN models THEN <<>>
  ELSE LET model == models[product_id]
       IN  IF <<model, days_ahead>> \in DOMAIN PredictTable
           THEN PredictTable[<<model, days_ahead>>]
           ELSE PredictFuture(model, days_ahead)

\* the outcome written for a product whose model.fit is never called
NoOutcome == [raises |-> FALSE, params |-> DefaultParams]

\* the products for which fit_prophet_model reaches model.fit
ModelFitCalled(prepared_data, catalog) ==
  {p \in Products :
     /\ \E i \in 1..Len(catalog) : catalog[i] = p
     /\ Len(create_prophet_features(prepared_data, p)) >= MIN_OBS}

(***************************************************************************)
(* DemandForecaster.get_forecast_summary                                   *)
(***************************************************************************)
\* variant of RoundedClamped: no clamp at zero
RoundedUnclamped(total, count) == RoundDiv(total, 10 * count)

\* round(max(0, total / count), 2) in hundredths, total counting thousandths
RoundedClamped(total, count) == RoundDiv(Max(0, total), 10 * count)

\* the sum of column yhat over rows lo..hi (summed by halves)
RECURSIVE SumYhat(_, _, _)
SumYhat(prophet_pred, lo, hi) ==
  IF lo > hi THEN 0
  ELSE IF lo = hi THEN prophet_pred[lo].yhat
  ELSE LET mid == (lo + hi) \div 2
       IN  SumYhat(prophet_pred, lo, mid) + SumYhat(prophet_pred, mid + 1, hi)

\* SumYhat tabulated on the frames of PredictTable (a memo)
SumTable ==
  [pred \in {PredictTable[k] : k \in DOMAIN PredictTable} |->
     SumYhat(pred, 1, Len(pred))] @@ <<>>

\* prophet_pred['yhat'].sum()
YhatSum(prophet_pred) ==
  IF prophet_pred \in DOMAIN SumTable THEN SumTable[prophet_pred]
  ELSE SumYhat(prophet_pred, 1, Len(prophet_pred))

SummaryRow(product_id, prophet_pred, days_ahead) ==
  LET total == YhatSum(prophet_pred)
  IN  [product_id |-> product_id,
       avg_daily_demand |-> RoundedClamped(total, Len(prophet_pred)),
       total_demand_forecast |-> RoundedClamped(total, 1),
       forecast_period_days |-> days_ahead]

\* variant of SummaryLoop: a product without a model gets a row of zeros
RECURSIVE SummaryLoopZeroFills(_, _, _, _)
SummaryLoopZeroFills(models, product_ids, days_ahead, i) ==
  IF i > Len(product_ids) THEN <<>>
  ELSE LET product_id == product_ids[i]
           prophet_pred == predict_prophet(models, product_id, days_ahead)
           row == IF prophet_pred # <<>>
                  THEN SummaryRow(product_id, prophet_pred, days_ahead)
                  ELSE [product_id |-> product_id, avg_daily_demand |-> 0,
                        total_demand_forecast |-> 0,
                        forecast_period_days |-> days_ahead]
       IN  <<[row |-> row, pred |-> prophet_pred]>>
             \o SummaryLoopZeroFills(models, product_ids, days_ahead, i + 1)

\* the loop over product_ids; each entry keeps the row appended to summaries
\* and the prediction frame it was reduced from
RECURSIVE SummaryLoop(_, _, _, _)
SummaryLoop(models, product_ids, days_ahead, i) ==
  IF i > Len(product_ids) THEN <<>>
  ELSE LET product_id == product_ids[i]
           rest == SummaryLoop(models, product_ids, days_ahead, i + 1)
       IN  IF product_id \in DOMAIN models
           THEN LET prophet_pred == predict_prophet(models, product_id, days_ahead)
                IN  IF prophet_pred # <<>>
                    THEN <<[row |-> SummaryRow(product_id, prophet_pred, days_ahead),
                            pred |-> prophet_pred]>> \o rest
                    ELSE rest
           ELSE rest

\* variant of get_forecast_summary: a model is popped from the registry
\* when it is used
get_forecast_summary_pops(self, product_ids, days_ahead) ==
  [summary |-> SummaryLoop(self.prophet_models, product_ids, days_ahead, 1),
   prophet_models |->
     [p \in DOMAIN self.prophet_models \ {product_ids[i] : i \in 1..Len(product_ids)}
        |-> self.prophet_models[p]],
   is_fitted |-> self.is_fitted]

\* get_forecast_summary(self, product_ids, days_ahead): the summaries it
\* returns, and the forecaster's fields as the call leaves them
get_forecast_summary(self, product_ids, days_ahead) ==
  [summary |-> SummaryLoop(self.prophet_models, product_ids, days_ahead, 1),
   prophet_models |-> self.prophet_models,
   is_fitted |-> self.is_fitted]

(***************************************************************************)
(* State machine                                                           *)
(***************************************************************************)
\* the forecaster object
Self ==
  [prophet_models |-> prophet_models, rf_models |-> rf_models, is_fitted |-> is_fitted]

\* DemandForecaster.__init__
Init ==
  /\ prophet_models = EmptyDict
  /\ rf_models = EmptyDict
  /\ is_fitted = FALSE
  /\ op = "init"
  /\ args = NoArgs
  /\ ret = NoRet
  /\ sales_data = NoTable

\* demand_forecaster.fit(sales_data, products); ret.fitted is the set of
\* products for which this call obtained a model
Fit ==
  \E c \in SalesChoices, catalog \in Catalogs :
    \E called \in {IF PreparedOf[c].raised THEN {}
                    ELSE ModelFitCalled(PreparedOf[c].rows, catalog)} :
      \E drawn \in [called -> FitOutcomes] :
        LET outcomes == [p \in Products |-> IF p \in called THEN drawn[p] ELSE NoOutcome]
        IN  \E done \in {fit(Self, PreparedOf[c], catalog, outcomes)} :
              /\ op' = "fit"
              /\ args' = [NoArgs EXCEPT !.sales = c, !.catalog = catalog]
              /\ prophet_models' = done.prophet_models
              /\ is_fitted' = done.is_fitted
              /\ ret' = IF done.raised
                        THEN [NoRet EXCEPT !.raised = TRUE, !.error = "prepare_data"]
                        ELSE [NoRet EXCEPT !.fitted = {p \in called : ~outcomes[p].raises}]
              /\ sales_data' = PreparedOf[c].sales_data
              /\ UNCHANGED rf_models

\* demand_forecaster.get_forecast_summary(product_ids, days_ahead)
GetForecastSummary ==
  \E product_ids \in RequestLists, days_ahead \in DaysAheadChoices :
    \E done \in {get_forecast_summary(Self, product_ids, days_ahead)} :
      /\ op' = "get_forecast_summary"
      /\ args' = [NoArgs EXCEPT !.product_ids = product_ids, !.days_ahead = days_ahead]
      /\ prophet_models' = done.prophet_models
      /\ is_fitted' = done.is_fitted
      /\ ret' = [NoRet EXCEPT !.summary = done.summary]
      /\ sales_data' = NoTable
      /\ UNCHANGED rf_models

\* variant of ForecastRequestValid: the lower limit is 0
ForecastRequestAllowsZero(forecast_horizon) ==
  0 <= forecast_horizon /\ forecast_horizon <= HORIZON_LE

\* ForecastRequest: forecast_horizon has ge = 1 and le = 365
ForecastRequestValid(forecast_horizon) ==
  HORIZON_GE <= forecast_horizon /\ forecast_horizon <= HORIZON_LE

\* POST /forecast/demand: a request that fails validation never reaches the
\* handler; otherwise the handler calls get_forecast_summary
ForecastDemand ==
  \E product_ids \in RequestLists, forecast_horizon \in DaysAheadChoices :
    /\ op' = "forecast_demand"
    /\ args' = [NoArgs EXCEPT !.product_ids = product_ids, !.days_ahead = forecast_horizon]
    /\ sales_data' = NoTable
    /\ UNCHANGED rf_models
    /\ IF ForecastRequestValid(forecast_horizon)
       THEN \E done \in {get_forecast_summary(Self, product_ids, forecast_horizon)} :
              /\ prophet_models' = done.prophet_models
              /\ is_fitted' = done.is_fitted
              /\ ret' = [NoRet EXCEPT !.summary = done.summary]
       ELSE /\ ret' = [NoRet EXCEPT !.raised = TRUE, !.error = "validation"]
            /\ UNCHANGED <<prophet_models, is_fitted>>

Next == Fit \/ GetForecastSummary \/ ForecastDemand

Spec == Init /\ [][Next]_vars

(***************************************************************************)
(* prepare_data called on its own, on small sales tables in any order      *)
(***************************************************************************)
\* a Saturday (2024-01-06) and a Monday (2024-01-08)
SmallDays == {5, 7}

\* the record of store v: stores differ in quantity, price and promotion
SmallRecord(d, p, v) ==
  [date |-> RawDate(d), product_id |-> p, store_id |-> v,
   quantity_sold |-> v, unit_price |-> 1000 + 5 * v,
   promotion_applied |-> (v = 2)]

\* records with raw dates, one whose date is a Timestamp already (a Sunday),
\* and one whose date cannot be converted
SmallRecords ==
  {SmallRecord(d, p, v) : d \in SmallDays, p \in Products, v \in {1, 2}}
    \cup {[SmallRecord(6, "P001", 1) EXCEPT !.date = Timestamp(6)], MalformedRecord}

SmallTables == UNION {[1..n -> SmallRecords] : n \in 0..MaxRecords}

\* the caller holds a sales table; the forecaster is freshly constructed
InitPrepare ==
  /\ prophet_models = EmptyDict
  /\ rf_models = EmptyDict
  /\ is_fitted = FALSE
  /\ op = "init"
  /\ args = NoArgs
  /\ ret = NoRet
  /\ sales_data \in SmallTables

\* forecaster.prepare_data(sales_data) on the caller's table; args.sales is
\* the table as it was passed
PrepareData ==
  \E done \in {prepare_data(sales_data)} :
    /\ op' = "prepare_data"
    /\ args' = [NoArgs EXCEPT !.sales = sales_data]
    /\ ret' = [NoRet EXCEPT !.raised = done.raised, !.rows = done.rows]
    /\ sales_data' = done.sales_data
    /\ UNCHANGED <<prophet_models, rf_models, is_fitted>>

NextPrepare == PrepareData

SpecPrepare == InitPrepare /\ [][NextPrepare]_vars

(***************************************************************************)
(* Properties                                                              *)
(***************************************************************************)
Abs(x) == IF x >= 0 THEN x ELSE -x

FitCompleted == op = "fit" /\ ~ret.raised

DirectSummary == op = "get_forecast_summary"

Requested(p) == \E i \in 1..Len(args.product_ids) : args.product_ids[i] = p

HasRow(p) == \E i \in 1..Len(ret.summary) : ret.summary[i].row.product_id = p

\* the number of distinct sale dates product p has in the table of choice c
DailyObservations(c, p) ==
  LET sales == SalesTable(c.days, c.malformed)
  IN  Cardinality({sales[i].date.day :
                     i \in {j \in 1..Len(sales) : sales[j].product_id = p}})

LastTrainingDay(p) ==
  SeqMax(prophet_models[p].history_dates, 1, Len(prophet_models[p].history_dates))

\* C1: after a completed fit, every product with fewer than 30 daily
\* observations in that call's sales input is absent from the registry,
\* whatever fits came before.
C1_InsufficientAbsent ==
  FitCompleted =>
    \A p \in Products :
      DailyObservations(args.sales, p) < MIN_OBS => p \notin DOMAIN prophet_models

\* C2: after a completed fit, the registry keys are exactly the catalog
\* products for which this call obtained a model.
C2_RegistryReplaced ==
  FitCompleted => DOMAIN prophet_models = ret.fitted

\* C3: for a horizon N in 1..365, every summary row was reduced from exactly
\* N points, on the N days following the model's last training day, and has
\* forecast_period_days = N; a request for one fitted product gives one row.
C3_ExactlyNFuturePoints ==
  (DirectSummary /\ args.days_ahead \in HORIZON_GE..HORIZON_LE) =>
    /\ \A i \in 1..Len(ret.summary) :
         LET e == ret.summary[i]
             last == LastTrainingDay(e.row.product_id)
         IN  /\ Len(e.pred) = args.days_ahead
             /\ \A j \in 1..Len(e.pred) : e.pred[j].ds = last + j
             /\ e.row.forecast_period_days = args.days_ahead
    /\ (Len(args.product_ids) = 1 /\ args.product_ids[1] \in DOMAIN prophet_models)
         => Len(ret.summary) = 1

C3_Witness ==
  /\ DirectSummary
  /\ args.days_ahead = HORIZON_LE
  /\ Len(args.product_ids) = 1
  /\ Len(ret.summary) = 1
  /\ Len(ret.summary[1].pred) = HORIZON_LE

C6_NonNegative ==
  \A i \in 1..Len(ret.summary) :
    /\ ret.summary[i].row.avg_daily_demand >= 0
    /\ ret.summary[i].row.total_demand_forecast >= 0

\* a row whose point estimates sum to less than zero
C6_Witness ==
  \E i \in 1..Len(ret.summary) :
    /\ SumYhat(ret.summary[i].pred, 1, Len(ret.summary[i].pred)) < 0
    /\ ret.summary[i].row.total_demand_forecast = 0
    /\ ret.summary[i].row.avg_daily_demand = 0

\* C7 as stated: total_demand_forecast and avg_daily_demand * N differ by
\* rounding only, by no more than 0.01 whatever the horizon.
C7_DifferenceIndependentOfHorizon ==
  \A i \in 1..Len(ret.summary) :
    LET r == ret.summary[i].row
    IN  Abs(r.total_demand_forecast - r.avg_daily_demand * r.forecast_period_days) <= 1

\* C7 amended: the two differ by at most 0.005 * N + 0.005 (in hundredths,
\* twice the difference is at most N + 1).
C7_DifferenceWithinHalfUnitPerDay ==
  \A i \in 1..Len(ret.summary) :
    LET r == ret.summary[i].row
        n == Len(ret.summary[i].pred)
    IN  2 * Abs(r.total_demand_forecast - r.avg_daily_demand * n) <= n + 1

C7_Witness ==
  \E i \in 1..Len(ret.summary) :
    LET r == ret.summary[i].row
    IN  /\ r.forecast_period_days = HORIZON_LE
        /\ Len(ret.summary[i].pred) = HORIZON_LE
        /\ Abs(r.total_demand_forecast - r.avg_daily_demand * HORIZON_LE) > 1

\* C8: is_fitted is false after construction, true after every completed
\* fit, and never goes from true to false.
C8_IsFittedLifecycle ==
  /\ [](op = "init" => ~is_fitted)
  /\ [](FitCompleted => is_fitted)
  /\ [][is_fitted => is_fitted']_vars

\* a completed fit that obtained no model and left the registry empty
C8_Witness ==
  FitCompleted /\ ret.fitted = {} /\ DOMAIN prophet_models = {} /\ is_fitted

\* C9: a fit whose sales input cannot be prepared raises, and leaves the
\* registry and is_fitted as they were.
C9_FailedFitPublishesNothing ==
  [][(op' = "fit" /\ PreparedOf[args'.sales].raised) =>
       /\ ret'.raised /\ ret'.error = "prepare_data"
       /\ prophet_models' = prophet_models
       /\ is_fitted' = is_fitted]_vars

\* a fit that raised on a forecaster that holds models
C9_Witness ==
  op = "fit" /\ ret.raised /\ is_fitted /\ DOMAIN prophet_models = Products

\* C10: get_forecast_summary leaves the registry and is_fitted as they were,
\* and the same call repeated right away returns the same result.
C10_SummaryReadOnly ==
  /\ [][op' = "get_forecast_summary" =>
          /\ prophet_models' = prophet_models
          /\ rf_models' = rf_models
          /\ is_fitted' = is_fitted]_vars
  /\ [][(DirectSummary /\ op' = "get_forecast_summary" /\ args' = args) =>
          ret' = ret]_vars

C10_Witness ==
  /\ DirectSummary
  /\ Len(ret.summary) = MaxRequest
  /\ DOMAIN prophet_models = Products

\* C11: a call of prepare_data leaves the caller's sales table, its date
\* column included, exactly as it was passed, and changes no field of the
\* forecaster
C11_CallerTableUnchanged ==
  [][op' = "prepare_data" =>
       /\ sales_data' = sales_data
       /\ UNCHANGED <<prophet_models, rf_models, is_fitted>>]_vars

\* the table s with its records in the order f
Permuted(s, f) == [i \in 1..Len(s) |-> s[f[i]]]

RowSet(rows) == {rows[i] : i \in 1..Len(rows)}

\* the (date, product_id) pairs of a table, and the records of one pair
InputKeys(s) == {<<s[i].date.day, s[i].product_id>> : i \in 1..Len(s)}

RecordsOfKey(s, key) ==
  {i \in 1..Len(s) : s[i].date.day = key[1] /\ s[i].product_id = key[2]}

RECURSIVE TotalQuantity(_, _)
TotalQuantity(s, idx) ==
  IF idx = {} THEN 0
  ELSE LET i == CHOOSE j \in idx : TRUE
       IN  s[i].quantity_sold + TotalQuantity(s, idx \ {i})

\* day 0 is a Monday: Saturdays are the days 7k + 5, Sundays the days 7k + 6
SaturdayOrSunday(d) == \E k \in 0..d : d = 7 * k + 5 \/ d = 7 * k + 6

\* C12: prepare_data gives the same set of rows (or raises alike) for every
\* order of the input records; the rows are exactly one per (date,
\* product_id) pair of the input, with quantity_sold the sum and
\* promotion_applied the OR over the records of the pair, and is_weekend 1
\* exactly on a Saturday or Sunday
C12_OrderIndependent ==
  op = "prepare_data" =>
    LET input == args.sales IN
      /\ \A f \in Permutations(1..Len(input)) :
           LET other == prepare_data(Permuted(input, f))
           IN  /\ other.raised = ret.raised
               /\ RowSet(other.rows) = RowSet(ret.rows)
      /\ ~ret.raised =>
           /\ Len(ret.rows) = Cardinality(InputKeys(input))
           /\ {<<r.date.day, r.product_id>> : r \in RowSet(ret.rows)} = InputKeys(input)
           /\ \A r \in RowSet(ret.rows) :
                LET idx == RecordsOfKey(input, <<r.date.day, r.product_id>>)
                IN  /\ r.quantity_sold = TotalQuantity(input, idx)
                    /\ r.promotion_applied
                         <=> (\E i \in idx : input[i].promotion_applied)
                    /\ r.is_weekend = (IF SaturdayOrSunday(r.date.day) THEN 1 ELSE 0)

\* a Saturday pair whose two records are separated by a Monday record and
\* differ in quantity and promotion, prepared into a weekend and a weekday row
C12_Witness ==
  /\ op = "prepare_data" /\ ~ret.raised
  /\ Len(args.sales) = 3
  /\ args.sales[1].date.day = args.sales[3].date.day
  /\ args.sales[1].product_id = args.sales[3].product_id
  /\ args.sales[1].date.day # args.sales[2].date.day
  /\ args.sales[1].quantity_sold # args.sales[3].quantity_sold
  /\ args.sales[1].promotion_applied # args.sales[3].promotion_applied
  /\ \E r \in RowSet(ret.rows) :
       r.is_weekend = 1 /\ r.quantity_sold = 3 /\ r.promotion_applied
  /\ \E r \in RowSet(ret.rows) : r.is_weekend = 0

\* the catalog of the latest fit
InCatalog(p) == \E i \in 1..Len(args.catalog) : args.catalog[i] = p

\* C13: once preparation has succeeded fit does not raise; every catalog
\* product for which the call obtained a model (30 observations or more and
\* a model fit that succeeded) is in the registry, and every other catalog
\* product (too few observations, or a model fit that failed) is not,
\* wherever it stands in the catalog
C13_FailuresIsolated ==
  op = "fit" =>
    /\ ret.raised => PreparedOf[args.sales].raised
    /\ ~ret.raised =>
         \A p \in Products :
           /\ p \in ret.fitted => p \in DOMAIN prophet_models
           /\ (InCatalog(p) /\ p \notin ret.fitted) => p \notin DOMAIN prophet_models

====
